---- MODULE Spec2Model ----
(***************************************************************************)
(* Uplink Monitor (js/main.js): three CSV tables are fetched, normalised   *)
(* and indexed; a checkbox tree, markers and connector lines are built;    *)
(* checkbox changes and the Check All / Uncheck All buttons set the        *)
(* enabled flags, after which applyVisibilityRules and updateMarkerStyles  *)
(* run.                                                                    *)
(*                                                                         *)
(* Representation.  A CSV field is a string.  A number is the 1-tuple <<n>>*)
(* and JavaScript null is <<>> (toNum).  A normalised id is a non-empty    *)
(* string and null is "" (normalizeId never returns the empty string).     *)
(* An object (row, marker, polyline, checkbox) is named by the index of    *)
(* the row or tree position it was created for, so two rows with the same  *)
(* id give two distinct markers and two distinct polylines.  A Map is a    *)
(* function on its key set.                                                *)
(* The name columns are left out of the rows: with all names equal the     *)
(* stable sorts of buildTree keep the CSV order.  The map view (zoomTo,    *)
(* fitBoundsToData) is left out: nothing else reads it.  The status        *)
(* element and the two buttons are taken to exist in the page.             *)
(***************************************************************************)
EXTENDS Integers, Sequences, FiniteSets, TLC

\* ------------------------------------------------------------------ bounds
\* Total number of data rows over the three CSV files.
MaxRows == 3

\* ---------------------------------------------------------- input domains
FILES == {"barangays", "cities", "provinces"}

\* Raw (lat, lon) fields of a row: two numbers; an unparseable lon.
RawCoords == {<<"10", "123">>, <<"10", "n/a">>}
\* Provinces.csv also has a row with an empty lat field.
RawProvinceCoords == RawCoords \cup {<<"", "123">>}

RawProvinceIds == {"P1"}
RawCityIds == {"C1", "C2"}
RawBrgyIds == {"B1", "B2"}
\* province_id column of Cities.csv: a province id, or an empty field.
RawCityProvinceIds == {"P1", ""}

RawProvinceRows ==
  {[province_id |-> id, lat |-> ll[1], lon |-> ll[2]] :
     id \in RawProvinceIds, ll \in RawProvinceCoords}

RawCityRows ==
  {[city_id |-> id, province_id |-> pid, lat |-> ll[1], lon |-> ll[2]] :
     id \in RawCityIds, pid \in RawCityProvinceIds, ll \in RawCoords}

RawBrgyRows ==
  {[brgy_id |-> id, city_id |-> cid, lat |-> ll[1], lon |-> ll[2]] :
     id \in RawBrgyIds, cid \in RawCityIds, ll \in RawCoords}

\* The ids of a file are named in the order of their first rows: B1 before B2,
\* C1 before C2.
FirstIs(rows, Key(_), id) == rows = <<>> \/ Key(rows[1]) = id

\* The row arrays the three fetchCsv calls can return: MaxRows rows in all.
RowArrays ==
  UNION {{[barangays |-> b, cities |-> c, provinces |-> p] :
            b \in {x \in [1..n[1] -> RawBrgyRows] :
                     FirstIs(x, LAMBDA r : r.brgy_id, "B1")},
            c \in {x \in [1..n[2] -> RawCityRows] :
                     FirstIs(x, LAMBDA r : r.city_id, "C1")},
            p \in [1..n[3] -> RawProvinceRows]} :
         n \in {m \in (0..MaxRows) \X (0..MaxRows) \X (0..MaxRows) :
                  m[1] + m[2] + m[3] <= MaxRows}}

\* --------------------------------------------------------------- helpers
null == <<>>
nullId == ""
Truthy(n) == n # null /\ n[1] # 0
EmptyMap == <<>>
Put(f, k, v) == [x \in (DOMAIN f) \cup {k} |-> IF x = k THEN v ELSE f[x]]
Range(s) == {s[i] : i \in DOMAIN s}
Indexes(s, Test(_)) == {i \in DOMAIN s : Test(s[i])}
Max(S) == CHOOSE x \in S : \A y \in S : y <= x
Min(S) == CHOOSE x \in S : \A y \in S : x <= y

\* Number(x), null unless finite.
toNum(x) ==
  CASE x = "10" -> <<10>>
    [] x = "123" -> <<123>>
    [] x \in {"", " ", "0"} -> <<0>>
    [] OTHER -> null

trim(x) == IF x \in {" ", "  "} THEN "" ELSE x

normalizeId(x) ==
  LET s == trim(x)
  IN  IF s # "" THEN s ELSE nullId

VARIABLES
  response,         \* file -> "pending" | "ok" | "failed": how fetchCsv(file) ended
  csv,              \* main's barangaysRaw, citiesRaw, provincesRaw
  pc,               \* main: "await" | "loaded" | "error"
  status,           \* the status element: [msg, cls]
  barangays, cities, provinces,
  cityById, provinceById, barangaysByCity,
  enabled,          \* type -> (id -> BOOLEAN)
  tree,             \* the checkboxes of treeEl in document order
  checked,          \* tree position -> cb.checked
  markers,          \* type -> (id -> marker)
  layerMarkers,     \* type -> markers on layerProv / layerCity / layerBrgy
  icon,             \* marker -> icon
  linkBrgyToCity, linkCityToProv,
  layerLinks,       \* polylines on layerLinks
  handlers          \* click handlers registered on btnCheckAll / btnUncheckAll

vars == <<response, csv, pc, status, barangays, cities, provinces, cityById, provinceById,
          barangaysByCity, enabled, tree, checked, markers, layerMarkers, icon,
          linkBrgyToCity, linkCityToProv, layerLinks, handlers>>

\* ------------------------------------------------- state and indexes (pure)
getEnabled(en, type, id) ==
  IF id \in DOMAIN en[type] THEN en[type][id] # FALSE ELSE TRUE

setEnabled(en, type, id, val) == [en EXCEPT ![type] = Put(@, id, val)]

setAllEnabled(en, type, val) == [en EXCEPT ![type] = [id \in DOMAIN @ |-> val]]

HasCoords(r) == r.lat # null /\ r.lon # null

\* ------------------------------------------------ main: normalise and filter
barangaysAll(raw) ==
  SelectSeq([i \in DOMAIN raw |->
               [brgy_id |-> normalizeId(raw[i].brgy_id),
                city_id |-> normalizeId(raw[i].city_id),
                lat |-> toNum(raw[i].lat),
                lon |-> toNum(raw[i].lon)]],
            LAMBDA r : r.brgy_id # nullId /\ r.city_id # nullId
                       /\ Truthy(r.lat) /\ Truthy(r.lon))

citiesAll(raw) ==
  SelectSeq([i \in DOMAIN raw |->
               [city_id |-> normalizeId(raw[i].city_id),
                province_id |-> normalizeId(raw[i].province_id),
                lat |-> toNum(raw[i].lat),
                lon |-> toNum(raw[i].lon)]],
            LAMBDA r : r.city_id # nullId)

provincesAll(raw) ==
  SelectSeq([i \in DOMAIN raw |->
               [province_id |-> normalizeId(raw[i].province_id),
                lat |-> toNum(raw[i].lat),
                lon |-> toNum(raw[i].lon)]],
            LAMBDA r : r.province_id # nullId)

\* A Map filled by set(key(row), row) over the rows that pass Test, in order:
\* the last such row of a key stays.  Rows are named by their index.
LastByKey(rows, Key(_), Test(_)) ==
  [k \in {Key(rows[i]) : i \in Indexes(rows, Test)} |->
     Max({i \in Indexes(rows, Test) : Key(rows[i]) = k})]

cityByIdOf(cs) == LastByKey(cs, LAMBDA c : c.city_id, HasCoords)

provinceByIdOf(ps) == LastByKey(ps, LAMBDA p : p.province_id, HasCoords)

barangaysByCityOf(bs) ==
  [cid \in {bs[i].city_id : i \in DOMAIN bs} |->
     SelectSeq([i \in DOMAIN bs |-> i], LAMBDA i : bs[i].city_id = cid)]

initEnabled(ps, cs, bs) ==
  [province |-> [id \in {ps[i].province_id : i \in DOMAIN ps} |-> TRUE],
   city |-> [id \in {cs[i].city_id : i \in DOMAIN cs} |-> TRUE],
   barangay |-> [id \in {bs[i].brgy_id : i \in DOMAIN bs} |-> TRUE]]

\* ------------------------------------------------------------- buildTree
RECURSIVE Concat(_)
Concat(ss) == IF ss = <<>> THEN <<>> ELSE Head(ss) \o Concat(Tail(ss))

\* One checkbox row: its node and the node of the row it is nested under.
NodeRow(type, id, under) == [type |-> type, id |-> id, under |-> under]

brgyRowsOf(cityId, bs, bbc) ==
  LET bList == IF cityId \in DOMAIN bbc THEN bbc[cityId] ELSE <<>>
  IN  [k \in DOMAIN bList |-> NodeRow("barangay", bs[bList[k]].brgy_id, cityId)]

cityRowsOf(provId, cs, bs, bbc) ==
  LET citiesInProv == SelectSeq(cs, LAMBDA c : c.province_id = provId)
  IN  Concat([k \in DOMAIN citiesInProv |->
                <<NodeRow("city", citiesInProv[k].city_id, provId)>>
                \o brgyRowsOf(citiesInProv[k].city_id, bs, bbc)])

buildTree(ps, cs, bs, bbc) ==
  Concat([k \in DOMAIN ps |->
            <<NodeRow("province", ps[k].province_id, nullId)>>
            \o cityRowsOf(ps[k].province_id, cs, bs, bbc)])

\* buildNodeRow: cb.checked = getEnabled(type, id)
initChecked(tr, en) == [i \in DOMAIN tr |-> getEnabled(en, tr[i].type, tr[i].id)]

\* ------------------------------------------------------ markers and links
Marker(type, i) == <<type, i>>

Line(kind, from, to) == [kind |-> kind, from |-> from, to |-> to]

\* markers[type]: set(id, m) for every row with coordinates, in order.
markersOf(ps, cs, bs) ==
  LET ByRow(type, rows, Key(_)) ==
        LET at == LastByKey(rows, Key, HasCoords)
        IN  [id \in DOMAIN at |-> Marker(type, at[id])]
  IN  [province |-> ByRow("province", ps, LAMBDA p : p.province_id),
       city |-> ByRow("city", cs, LAMBDA c : c.city_id),
       barangay |-> ByRow("barangay", bs, LAMBDA b : b.brgy_id)]

\* layerProv / layerCity / layerBrgy: every marker created, m.addTo(layer).
layerMarkersOf(ps, cs, bs) ==
  [province |-> {Marker("province", i) : i \in Indexes(ps, HasCoords)},
   city |-> {Marker("city", i) : i \in Indexes(cs, HasCoords)},
   barangay |-> {Marker("barangay", i) : i \in Indexes(bs, HasCoords)}]

\* Every marker is created with its kind's enabled icon.
createdIcons(lm) ==
  [m \in lm.province \cup lm.city \cup lm.barangay |->
     CASE m[1] = "province" -> "provinceIconEnabled"
       [] m[1] = "city" -> "cityIconEnabled"
       [] m[1] = "barangay" -> "brgyIconEnabled"]

\* The barangay rows that get a barangay->city polyline.
brgyLinkRows(bs, cs, cbi) ==
  {i \in DOMAIN bs :
     /\ HasCoords(bs[i])
     /\ bs[i].city_id # nullId
     /\ bs[i].city_id \in DOMAIN cbi
     /\ HasCoords(cs[cbi[bs[i].city_id]])}

brgyLine(i, bs, cbi) == Line("brgy-city", i, cbi[bs[i].city_id])

\* The city rows that get a city->province polyline.
cityLinkRows(cs, ps, pbi) ==
  {i \in DOMAIN cs :
     /\ HasCoords(cs[i])
     /\ cs[i].province_id # nullId
     /\ cs[i].province_id \in DOMAIN pbi
     /\ HasCoords(ps[pbi[cs[i].province_id]])}

cityLine(i, cs, pbi) == Line("city-province", i, pbi[cs[i].province_id])

\* linkBrgyToCity.set(b.brgy_id, line) in row order: the last line of an id stays.
linkBrgyToCityOf(bs, cs, cbi) ==
  LET rows == brgyLinkRows(bs, cs, cbi)
  IN  [id \in {bs[i].brgy_id : i \in rows} |->
         brgyLine(Max({i \in rows : bs[i].brgy_id = id}), bs, cbi)]

linkCityToProvOf(cs, ps, pbi) ==
  LET rows == cityLinkRows(cs, ps, pbi)
  IN  [id \in {cs[i].city_id : i \in rows} |->
         cityLine(Max({i \in rows : cs[i].city_id = id}), cs, pbi)]

\* line.addTo(layerLinks) for every polyline created.
createdLines(bs, cs, ps, cbi, pbi) ==
  {brgyLine(i, bs, cbi) : i \in brgyLinkRows(bs, cs, cbi)}
  \cup {cityLine(i, cs, pbi) : i \in cityLinkRows(cs, ps, pbi)}

\* -------------------------------------------------------- updateMarkerStyles
iconFor(type, on) ==
  CASE type = "province" -> IF on THEN "provinceIconEnabled" ELSE "disabledAwesome"
    [] type = "city" -> IF on THEN "cityIconEnabled" ELSE "disabledAwesome"
    [] type = "barangay" -> IF on THEN "brgyIconEnabled" ELSE "brgyIconDisabled"

\* markers[type].forEach((m, id) => m.setIcon(...)): only the markers in the Maps.
updateMarkerStyles(ic, en, mk) ==
  [m \in DOMAIN ic |->
     IF \E id \in DOMAIN mk[m[1]] : mk[m[1]][id] = m
       THEN LET id == CHOOSE x \in DOMAIN mk[m[1]] : mk[m[1]][x] = m
            IN  iconFor(m[1], getEnabled(en, m[1], id))
       ELSE ic[m]]

\* ------------------------------------------------------ applyVisibilityRules
\* showLine that removes a line and never puts one back.
showLineRemoveOnly(layer, line, yes) ==
  IF ~yes THEN layer \ {line} ELSE layer

showLine(layer, line, yes) ==
  LET isOnMap == line \in layer
  IN  IF yes /\ ~isOnMap THEN layer \cup {line}
      ELSE IF ~yes /\ isOnMap THEN layer \ {line}
      ELSE layer

\* barangays.find(x => x.brgy_id === brgyId): the first such row, 0 if none.
findBrgy(bs, brgyId) ==
  IF \E i \in DOMAIN bs : bs[i].brgy_id = brgyId
    THEN Min({i \in DOMAIN bs : bs[i].brgy_id = brgyId})
    ELSE 0

\* brgyRule with the province's flag cascading down to the barangay lines.
brgyRuleCascading(layer, en, d, brgyId) ==
  LET b == findBrgy(d.barangays, brgyId)
  IN  IF b = 0 THEN layer
      ELSE LET cityId == d.barangays[b].city_id
               provOn == \A k \in DOMAIN d.cities :
                           d.cities[k].city_id = cityId /\ d.cities[k].province_id # nullId
                             => getEnabled(en, "province", d.cities[k].province_id)
               visible == /\ getEnabled(en, "barangay", brgyId)
                          /\ getEnabled(en, "city", cityId)
                          /\ provOn
           IN  showLine(layer, d.linkBrgyToCity[brgyId], visible)

\* brgyRule without the city's flag.
brgyRuleOwnFlagOnly(layer, en, d, brgyId) ==
  LET b == findBrgy(d.barangays, brgyId)
  IN  IF b = 0 THEN layer
      ELSE showLine(layer, d.linkBrgyToCity[brgyId], getEnabled(en, "barangay", brgyId))

\* The body of linkBrgyToCity.forEach.
brgyRule(layer, en, d, brgyId) ==
  LET b == findBrgy(d.barangays, brgyId)
  IN  IF b = 0 THEN layer
      ELSE LET brgyOn == getEnabled(en, "barangay", brgyId)
               cityOn == IF d.barangays[b].city_id # nullId
                           THEN getEnabled(en, "city", d.barangays[b].city_id)
                           ELSE TRUE
               visible == brgyOn /\ cityOn
           IN  showLine(layer, d.linkBrgyToCity[brgyId], visible)

\* The body of linkCityToProv.forEach.
cityRule(layer, en, d, cityId) ==
  IF cityId \notin DOMAIN d.cityById THEN layer
  ELSE LET c == d.cities[d.cityById[cityId]]
           cityOn == getEnabled(en, "city", cityId)
           provOn == IF c.province_id # nullId
                       THEN getEnabled(en, "province", c.province_id)
                       ELSE TRUE
           visible == cityOn /\ provOn
       IN  showLine(layer, d.linkCityToProv[cityId], visible)

\* forEach over a Map's keys; each body touches the polyline of its own key.
RECURSIVE forEachKey(_, _, _, _, _)
forEachKey(keys, Body(_, _, _, _), layer, en, d) ==
  IF keys = {} THEN layer
  ELSE LET k == CHOOSE x \in keys : TRUE
       IN  forEachKey(keys \ {k}, Body, Body(layer, en, d, k), en, d)

applyVisibilityRules(layer, en, d) ==
  LET afterBrgy == forEachKey(DOMAIN d.linkBrgyToCity, brgyRule, layer, en, d)
  IN  forEachKey(DOMAIN d.linkCityToProv, cityRule, afterBrgy, en, d)

\* ------------------------------------------------------------ event handlers
\* The loaded data the handlers read and never write.
Data == [barangays |-> barangays, cities |-> cities, cityById |-> cityById,
         linkBrgyToCity |-> linkBrgyToCity, linkCityToProv |-> linkCityToProv,
         markers |-> markers, tree |-> tree]

\* What the handlers write.
View == [enabled |-> enabled, checked |-> checked, layerLinks |-> layerLinks,
         icon |-> icon]

\* buildNodeRow's change listener of checkbox i, after the browser has set
\* cb.checked to val.
onChange(v, d, i, val) ==
  LET en == setEnabled(v.enabled, d.tree[i].type, d.tree[i].id, val)
  IN  [enabled |-> en,
       checked |-> [v.checked EXCEPT ![i] = val],
       layerLinks |-> applyVisibilityRules(v.layerLinks, en, d),
       icon |-> updateMarkerStyles(v.icon, en, d.markers)]

\* The click listeners of btnCheckAll (val = TRUE) and btnUncheckAll (FALSE).
onClickAll(v, d, val) ==
  LET en == setAllEnabled(setAllEnabled(setAllEnabled(v.enabled, "province", val),
                                        "city", val), "barangay", val)
  IN  [enabled |-> en,
       checked |-> [i \in DOMAIN v.checked |-> val],
       layerLinks |-> applyVisibilityRules(v.layerLinks, en, d),
       icon |-> updateMarkerStyles(v.icon, en, d.markers)]

\* ------------------------------------------------------------------- main

\* Promise.allSettled in the place of Promise.all: no rejection, fulfilled once
\* every fetchCsv promise has settled.
PromiseAllSettled(resp) ==
  IF \A f \in FILES : resp[f] # "pending" THEN "fulfilled" ELSE "pending"

\* Promise.all over the three fetchCsv promises.
PromiseAll(resp) ==
  IF \E f \in FILES : resp[f] = "failed" THEN "rejected"
  ELSE IF \A f \in FILES : resp[f] = "ok" THEN "fulfilled"
  ELSE "pending"

Status(text, cls, file, counts) ==
  [text |-> text, cls |-> cls, file |-> file, counts |-> counts]

NoMaps == [province |-> EmptyMap, city |-> EmptyMap, barangay |-> EmptyMap]
NoLayers == [province |-> {}, city |-> {}, barangay |-> {}]

\* main() up to its await: setStatus("Fetching CSV files"), three fetches begun.
\* (Under file: the "Open via a local web server" status is set and replaced
\* by this one in the same synchronous run.)
Init ==
  /\ response = [f \in FILES |-> "pending"]
  /\ csv = [f \in FILES |-> <<>>]
  /\ pc = "await"
  /\ status = Status("Fetching CSV files", "", "", <<>>)
  /\ barangays = <<>> /\ cities = <<>> /\ provinces = <<>>
  /\ cityById = EmptyMap /\ provinceById = EmptyMap /\ barangaysByCity = EmptyMap
  /\ enabled = NoMaps
  /\ tree = <<>> /\ checked = <<>>
  /\ markers = NoMaps /\ layerMarkers = NoLayers /\ icon = EmptyMap
  /\ linkBrgyToCity = EmptyMap /\ linkCityToProv = EmptyMap
  /\ layerLinks = {}
  /\ handlers = FALSE

Built == <<barangays, cities, provinces, cityById, provinceById, barangaysByCity,
           enabled, tree, checked, markers, layerMarkers, icon, linkBrgyToCity,
           linkCityToProv, layerLinks, handlers>>

\* main() after the await resolved: from the normalisation to the final status.
MainLoad(c) ==
  LET bs == barangaysAll(c.barangays)
      cs == citiesAll(c.cities)
      ps == provincesAll(c.provinces)
      cbi == cityByIdOf(cs)
      pbi == provinceByIdOf(ps)
      bbc == barangaysByCityOf(bs)
      en == initEnabled(ps, cs, bs)
      tr == buildTree(ps, cs, bs, bbc)
      mk == markersOf(ps, cs, bs)
      lm == layerMarkersOf(ps, cs, bs)
      lbc == linkBrgyToCityOf(bs, cs, cbi)
      lcp == linkCityToProvOf(cs, ps, pbi)
      d == [barangays |-> bs, cities |-> cs, cityById |-> cbi,
            linkBrgyToCity |-> lbc, linkCityToProv |-> lcp, markers |-> mk,
            tree |-> tr]
      count(m) == Cardinality(DOMAIN m)
      withCoords(rows) == Cardinality(Indexes(rows, HasCoords))
  IN  /\ csv' = c
      /\ barangays' = bs /\ cities' = cs /\ provinces' = ps
      /\ cityById' = cbi /\ provinceById' = pbi /\ barangaysByCity' = bbc
      /\ enabled' = en
      /\ tree' = tr
      /\ checked' = initChecked(tr, en)
      /\ markers' = mk
      /\ layerMarkers' = lm
      /\ icon' = updateMarkerStyles(createdIcons(lm), en, mk)
      /\ linkBrgyToCity' = lbc /\ linkCityToProv' = lcp
      /\ layerLinks' = applyVisibilityRules(createdLines(bs, cs, ps, cbi, pbi), en, d)
      /\ handlers' = TRUE
      /\ status' = Status("Loaded markers", "ok", "",
                          <<count(mk.barangay), count(mk.city), count(mk.province),
                            Len(bs) - withCoords(bs), Len(cs) - withCoords(cs),
                            Len(ps) - withCoords(ps)>>)
      /\ pc' = "loaded"

\* main()'s catch: the first rejection rejects Promise.all.
MainCatch(file) ==
  /\ status' = Status("Error", "err", file, <<>>)
  /\ pc' = "error"
  /\ UNCHANGED <<csv, Built>>

\* fetchCsv(file) returns parsed.data; the await of main ends with the third,
\* which hands main the three row arrays.
FetchOk(file) ==
  /\ response[file] = "pending"
  /\ response' = [response EXCEPT ![file] = "ok"]
  /\ IF pc = "await" /\ PromiseAll(response') = "fulfilled"
       THEN \E c \in RowArrays : MainLoad(c)
       ELSE UNCHANGED <<csv, pc, status, Built>>

\* fetchCsv(file) throws: fetch rejected, or the response was not ok.
FetchFail(file) ==
  /\ response[file] = "pending"
  /\ response' = [response EXCEPT ![file] = "failed"]
  /\ IF pc = "await" /\ PromiseAll(response') = "rejected"
       THEN MainCatch(file)
       ELSE UNCHANGED <<csv, pc, status, Built>>

Static == <<response, csv, pc, status, barangays, cities, provinces, cityById,
            provinceById, barangaysByCity, tree, markers, layerMarkers,
            linkBrgyToCity, linkCityToProv, handlers>>

Apply(v) ==
  /\ enabled' = v.enabled
  /\ checked' = v.checked
  /\ layerLinks' = v.layerLinks
  /\ icon' = v.icon
  /\ UNCHANGED Static

\* The user clicks checkbox i of the tree.
Change(i) == Apply(onChange(View, Data, i, ~checked[i]))

CheckAll == handlers /\ Apply(onClickAll(View, Data, TRUE))

UncheckAll == handlers /\ Apply(onClickAll(View, Data, FALSE))

Next ==
  \/ \E file \in FILES : FetchOk(file)
  \/ \E file \in FILES : FetchFail(file)
  \/ \E i \in DOMAIN tree : Change(i)
  \/ CheckAll
  \/ UncheckAll

Spec == Init /\ [][Next]_vars

\* ======================================================= properties checked
Loaded == pc = "loaded"

TYPES == {"province", "city", "barangay"}

Rows(type) ==
  CASE type = "province" -> provinces
    [] type = "city" -> cities
    [] type = "barangay" -> barangays

RowId(type, i) ==
  CASE type = "province" -> provinces[i].province_id
    [] type = "city" -> cities[i].city_id
    [] type = "barangay" -> barangays[i].brgy_id

\* The polylines addMarkersAndLinks created.
BrgyLines == {brgyLine(i, barangays, cityById) :
                i \in brgyLinkRows(barangays, cities, cityById)}
CityLines == {cityLine(i, cities, provinceById) :
                i \in cityLinkRows(cities, provinces, provinceById)}

\* No two rows of a table share an id.
UniqueIds ==
  \A type \in TYPES : \A i, j \in DOMAIN Rows(type) :
    RowId(type, i) = RowId(type, j) => i = j

\* C1: after the load and any sequence of events, every barangay->city line
\* created is on the link layer iff its barangay's flag and the flag of the
\* barangay's city are both true.
C1_BrgyLineVisibleIffBothEnabled ==
  Loaded =>
    \A l \in BrgyLines :
      l \in layerLinks <=>
        (/\ enabled.barangay[barangays[l.from].brgy_id]
         /\ enabled.city[barangays[l.from].city_id])

\* (C1, supplement) the same holds of every table without repeated ids.
C1_UniqueIds == UniqueIds => C1_BrgyLineVisibleIffBothEnabled

\* C2: after the load and any sequence of events, every city->province line
\* created is on the link layer iff its city's flag and the flag of the city's
\* province are both true.
C2_CityLineVisibleIffBothEnabled ==
  Loaded =>
    \A l \in CityLines :
      l \in layerLinks <=>
        (/\ enabled.city[cities[l.from].city_id]
         /\ enabled.province[cities[l.from].province_id])

\* (C2, supplement) the same holds of every table without repeated ids.
C2_UniqueIds == UniqueIds => C2_CityLineVisibleIffBothEnabled

\* The lines the visibility rules look at: the values of the two link Maps.
RegisteredBrgyLines == {linkBrgyToCity[id] : id \in DOMAIN linkBrgyToCity}
RegisteredCityLines == {linkCityToProv[id] : id \in DOMAIN linkCityToProv}

\* The ids in linkBrgyToCity that applyVisibilityRules evaluates against cityId.
BrgysOfCity(cityId) ==
  {b \in DOMAIN linkBrgyToCity : barangays[findBrgy(barangays, b)].city_id = cityId}

\* The province flag applyVisibilityRules reads for the line of cityId.
ProvinceOn(cityId) ==
  LET c == cities[cityById[cityId]]
  IN  c.province_id # nullId => getEnabled(enabled, "province", c.province_id)

\* C3: a change of a province checkbox leaves every barangay->city line as it
\* was, the lines of the barangays under that province's cities included; the
\* lines that change are city->province lines of cities of that province.
C3_ProvinceChangeKeepsBrgyLines ==
  [][\A i \in DOMAIN tree :
       tree[i].type = "province" /\ Change(i) =>
         /\ \A l \in BrgyLines : l \in layerLinks' <=> l \in layerLinks
         /\ \A l \in (layerLinks' \ layerLinks) \cup (layerLinks \ layerLinks') :
              /\ l \in CityLines
              /\ \E k \in DOMAIN cities :
                   /\ cities[k].city_id = cities[l.from].city_id
                   /\ cities[k].province_id = tree[i].id]_vars

\* C3 witness: a province is unchecked, the line of one of its cities is hidden
\* and the line of a barangay of that city is still shown.
C3_Witness ==
  /\ Loaded
  /\ \E l \in BrgyLines \cap layerLinks : \E m \in CityLines \ layerLinks :
       /\ m.from = l.to
       /\ enabled.city[cities[m.from].city_id]
       /\ ~enabled.province[cities[m.from].province_id]

VisibleLines(en) ==
  ((BrgyLines \cup CityLines) \ (RegisteredBrgyLines \cup RegisteredCityLines))
  \cup {linkBrgyToCity[b] : b \in {x \in DOMAIN linkBrgyToCity :
          /\ getEnabled(en, "barangay", x)
          /\ getEnabled(en, "city", barangays[findBrgy(barangays, x)].city_id)}}
  \cup {linkCityToProv[c] : c \in {x \in DOMAIN linkCityToProv :
          /\ getEnabled(en, "city", x)
          /\ LET p == cities[cityById[x]].province_id
             IN  p # nullId => getEnabled(en, "province", p)}}

\* C5: the set of visible lines is a function of the current flags only,
\* whatever events led to them.
C5_VisibleLinesFunctionOfFlags == Loaded => layerLinks = VisibleLines(enabled)

\* C5 witness: after some events one line of the Maps is hidden and another is
\* shown.
C5_Witness ==
  /\ Loaded
  /\ \E l \in RegisteredBrgyLines \cup RegisteredCityLines : l \notin layerLinks
  /\ \E l \in RegisteredBrgyLines \cup RegisteredCityLines : l \in layerLinks

\* The views after the user has clicked checkbox i and then clicked it again.
ChangedTwice(i) ==
  onChange(onChange(View, Data, i, ~checked[i]), Data, i, checked[i])

\* C6: from any reachable state, unchecking a checkbox and checking it again
\* (or the reverse), with no event in between, restores every flag, the
\* visibility of every line and the icon of every marker.
C6_ToggleTwiceRestores ==
  Loaded =>
    \A i \in DOMAIN tree :
      /\ ChangedTwice(i).enabled = enabled
      /\ ChangedTwice(i).layerLinks = layerLinks
      /\ ChangedTwice(i).icon = icon

\* (C6, supplement) the same holds of every table without repeated ids.
C6_UniqueIds == UniqueIds => C6_ToggleTwiceRestores

\* C7: after the load and every event, every marker created is on its layer and
\* shows its kind's normal icon if the flag of its own node is true and the
\* disabled icon if it is false.
C7_MarkerIconFollowsOwnFlag ==
  Loaded =>
    \A type \in TYPES : \A i \in Indexes(Rows(type), HasCoords) :
      /\ Marker(type, i) \in layerMarkers[type]
      /\ icon[Marker(type, i)] = iconFor(type, enabled[type][RowId(type, i)])

\* (C7, supplement) the same holds of every table without repeated ids.
C7_UniqueIds == UniqueIds => C7_MarkerIconFollowsOwnFlag

\* C8: the load gives every node of the working set (every id with a flag or a
\* marker) a checkbox in the tree, checked.
C8_EveryNodeHasCheckbox ==
  [][~Loaded /\ Loaded' =>
       \A type \in TYPES : \A id \in (DOMAIN enabled[type] \cup DOMAIN markers[type])' :
         \E i \in DOMAIN tree' :
           tree'[i].type = type /\ tree'[i].id = id /\ checked'[i]]_vars

\* A tree row of the node.
HasTreeRow(type, id) == \E i \in DOMAIN tree : tree[i].type = type /\ tree[i].id = id

\* The raw rows of a file that have their required keys and lack a coordinate.
RowsLackingCoords(file) ==
  {r \in Range(csv[file]) :
     /\ toNum(r.lat) = null \/ toNum(r.lon) = null
     /\ CASE file = "provinces" -> normalizeId(r.province_id) # nullId
          [] file = "cities" -> normalizeId(r.city_id) # nullId
          [] file = "barangays" -> /\ normalizeId(r.brgy_id) # nullId
                                   /\ normalizeId(r.city_id) # nullId}

\* C9: a row of any of the three kinds that has its required keys and lacks a
\* coordinate gets a flag and a tree row under its parent (where the parent has
\* a tree row), and no marker or line is made for a row without coordinates.
C9_RowWithoutCoordsKept ==
  Loaded =>
    /\ \A r \in RowsLackingCoords("provinces") :
         /\ normalizeId(r.province_id) \in DOMAIN enabled.province
         /\ HasTreeRow("province", normalizeId(r.province_id))
    /\ \A r \in RowsLackingCoords("cities") :
         /\ normalizeId(r.city_id) \in DOMAIN enabled.city
         /\ HasTreeRow("province", normalizeId(r.province_id)) =>
              \E i \in DOMAIN tree :
                tree[i] = NodeRow("city", normalizeId(r.city_id),
                                  normalizeId(r.province_id))
    /\ \A r \in RowsLackingCoords("barangays") :
         /\ normalizeId(r.brgy_id) \in DOMAIN enabled.barangay
         /\ HasTreeRow("city", normalizeId(r.city_id)) =>
              \E i \in DOMAIN tree :
                tree[i] = NodeRow("barangay", normalizeId(r.brgy_id),
                                  normalizeId(r.city_id))
    /\ \A type \in TYPES : \A m \in layerMarkers[type] : HasCoords(Rows(type)[m[2]])
    /\ \A l \in BrgyLines : HasCoords(barangays[l.from]) /\ HasCoords(cities[l.to])
    /\ \A l \in CityLines : HasCoords(cities[l.from]) /\ HasCoords(provinces[l.to])

AnyFailed == \E f \in FILES : response[f] = "failed"

\* C10: once a fetch has failed the status is the error message of a failed
\* fetch and is never replaced, and nothing is built: no flag, tree row, marker
\* or line, and no Check All / Uncheck All handler, whatever the other fetches do.
C10_FetchFailureIsTerminal ==
  /\ [](AnyFailed =>
          /\ pc = "error"
          /\ status.text = "Error" /\ status.cls = "err"
          /\ response[status.file] = "failed"
          /\ enabled = NoMaps /\ tree = <<>> /\ checked = <<>>
          /\ markers = NoMaps /\ layerMarkers = NoLayers /\ icon = EmptyMap
          /\ linkBrgyToCity = EmptyMap /\ linkCityToProv = EmptyMap
          /\ layerLinks = {}
          /\ ~handlers)
  /\ [][AnyFailed => status' = status]_vars

\* C10 witness: one fetch has failed and the two others have completed after it.
C10_Witness ==
  /\ pc = "error"
  /\ \E f \in FILES : response[f] = "failed" /\ \A g \in FILES \ {f} : response[g] = "ok"

\* A coordinate field that is not a numeral: empty or blank, or not a number.
NotNumeral(x) == trim(x) = "" \/ toNum(x) = null

\* The position in provinces / cities of the i-th row of the file (the rows
\* without an id are filtered out before it).
ProvinceRowOf(i) ==
  Cardinality({j \in 1..i : normalizeId(csv.provinces[j].province_id) # nullId})
CityRowOf(i) ==
  Cardinality({j \in 1..i : normalizeId(csv.cities[j].city_id) # nullId})

\* C11: a province or city row whose lat or lon field is empty, blank or not a
\* number has null for that coordinate, gets no marker, and is an end of no
\* connector line.
C11_BadCoordFieldIsAbsent ==
  Loaded =>
    /\ \A i \in DOMAIN csv.provinces :
         LET r == csv.provinces[i]
             k == ProvinceRowOf(i)
         IN  normalizeId(r.province_id) # nullId =>
               /\ NotNumeral(r.lat) => provinces[k].lat = null
               /\ NotNumeral(r.lon) => provinces[k].lon = null
               /\ NotNumeral(r.lat) \/ NotNumeral(r.lon) =>
                    /\ Marker("province", k) \notin layerMarkers.province
                    /\ \A l \in CityLines : l.to # k
    /\ \A i \in DOMAIN csv.cities :
         LET r == csv.cities[i]
             k == CityRowOf(i)
         IN  normalizeId(r.city_id) # nullId =>
               /\ NotNumeral(r.lat) => cities[k].lat = null
               /\ NotNumeral(r.lon) => cities[k].lon = null
               /\ NotNumeral(r.lat) \/ NotNumeral(r.lon) =>
                    /\ Marker("city", k) \notin layerMarkers.city
                    /\ \A l \in CityLines : l.from # k
                    /\ \A l \in BrgyLines : l.to # k

\* (C11, supplement) the same holds of the fields that are not a number and
\* not blank: only the blank fields are given a coordinate.
NotNumber(x) == toNum(x) = null
C11_NotNumberIsAbsent ==
  Loaded =>
    /\ \A k \in DOMAIN provinces :
         ~HasCoords(provinces[k]) =>
           /\ Marker("province", k) \notin layerMarkers.province
           /\ \A l \in CityLines : l.to # k
    /\ \A k \in DOMAIN cities :
         ~HasCoords(cities[k]) =>
           /\ Marker("city", k) \notin layerMarkers.city
           /\ \A l \in CityLines : l.from # k
           /\ \A l \in BrgyLines : l.to # k
    /\ \A i \in DOMAIN csv.provinces :
         NotNumber(csv.provinces[i].lat) \/ NotNumber(csv.provinces[i].lon) =>
           ~HasCoords(provinces[ProvinceRowOf(i)])
    /\ \A i \in DOMAIN csv.cities :
         NotNumber(csv.cities[i].lat) \/ NotNumber(csv.cities[i].lon) =>
           ~HasCoords(cities[CityRowOf(i)])

\* A line on the link layer is the line its Map holds under its child's id, and
\* the row the rule of that id reads has the parent of the line's own child row.
LineUnderRules(l) ==
  IF l.kind = "brgy-city"
    THEN LET b == barangays[l.from]
         IN  /\ b.brgy_id \in DOMAIN linkBrgyToCity
             /\ linkBrgyToCity[b.brgy_id] = l
             /\ barangays[findBrgy(barangays, b.brgy_id)].city_id = b.city_id
    ELSE LET c == cities[l.from]
         IN  /\ c.city_id \in DOMAIN linkCityToProv
             /\ linkCityToProv[c.city_id] = l
             /\ c.city_id \in DOMAIN cityById
             /\ cities[cityById[c.city_id]].province_id = c.province_id

\* An Uncheck All click leaves no line on the link layer.
UncheckAllClearsLinks == UncheckAll => layerLinks' = {}

\* C12: for any loaded tables, tables with a repeated brgy_id or city_id
\* included, an Uncheck All click leaves the link layer empty, and in every
\* state each line on the link layer is the line registered under its child's
\* id and is evaluated against that child's own parent.
C12_LinesStayUnderRules ==
  /\ [](Loaded => \A l \in layerLinks : LineUnderRules(l))
  /\ [][UncheckAllClearsLinks]_vars

\* (C12, supplement) the two parts, each on its own.
C12_LinesOnLayerUnderRules == Loaded => \A l \in layerLinks : LineUnderRules(l)
C12_UncheckAllClears == [][UncheckAllClearsLinks]_vars

\* (C12, supplement) both parts hold of every table without repeated ids.
C12_UniqueIds ==
  /\ [](Loaded /\ UniqueIds => \A l \in layerLinks : LineUnderRules(l))
  /\ [][UniqueIds => UncheckAllClearsLinks]_vars

====
